---- MODULE Spec2Model ----
(***************************************************************************)
(* Model of eurec4a_snd/_helpers.py: the reconstruction of a sounding from *)
(* the flattened key/value/units records of a BUFR message, the unit       *)
(* normalisation, the derived quantities and the direction-aware sorting   *)
(* and filtering.                                                          *)
(*                                                                         *)
(* Numbers are fixed-point integers counting hundredths of the physical    *)
(* unit (26.85 degC is 2685).  np.nan and +/-np.inf are the integers NaN   *)
(* and +/-Inf, which lie outside the range of every sample of the model.   *)
(***************************************************************************)
EXTENDS Integers, Sequences, FiniteSets, TLC

VARIABLES
    pc,                   \* position of the pipeline / the exception raised
    series,               \* Sounding: attribute name -> list or array of samples
    unit,                 \* Sounding: variable name -> its <var>_unit label
    meta_data,            \* Sounding.meta_data
    station,              \* Sounding.station_lat / station_lon
    sounding_start_time,  \* Sounding.sounding_start_time
    date,                 \* the locals year, month, day, hour, minute, second
    key_key,              \* the record of the current iteration of the scan
    nrec,                 \* number of body records scanned so far
    pending,              \* records of the message header still to be scanned
    direction,            \* Sounding.direction
    sorter,               \* the index order computed by nan_argsort
    before,               \* the series and unit labels before the last unit check or sort
    result,               \* the value returned by the last operation
    struct_json,          \* the nested structure json.load returned
    json_flat,            \* the dict flatten_json returns
    visits,               \* history: the leaves flatten met, in the order it met them
    blocks                \* history: the measurement records scanned, by timePeriod record

vars == <<pc, series, unit, meta_data, station, sounding_start_time, date,
          key_key, nrec, pending, direction, sorter, before, result,
          struct_json, json_flat, visits, blocks>>

(***************************************************************************)
(* Bounds of the model.                                                    *)
(***************************************************************************)
\* body records of one message (the header records are not counted)
MaxRecords == 3
\* samples per array handed to the array operations
MaxLen == 3
\* variables whose unit label differs from the target unit at the unit check
MaxDev == 2
\* levels of lists and dicts above the leaves of a nested structure
MaxDepth == 2

(***************************************************************************)
(* Values.                                                                 *)
(***************************************************************************)
NaN == 999999
Inf == 999998
None == "None"

isnan(x) == x = NaN

\* an int object, and a str object of decimal digits
IntObj(n) == [int |-> n]
StrObj(digits) == [str |-> digits]

\* Sounding.__init__: the nine measurement lists
Measured == {"time", "pressure", "temperature", "dewpoint", "windspeed",
             "winddirection", "gpm", "displacement_lat", "displacement_lon"}

\* the field name of a record that feeds each measurement list
KeyOf == [v \in Measured |->
            CASE v = "time" -> "timePeriod"
              [] v = "pressure" -> "pressure"
              [] v = "temperature" -> "airTemperature"
              [] v = "dewpoint" -> "dewpointTemperature"
              [] v = "windspeed" -> "windSpeed"
              [] v = "winddirection" -> "windDirection"
              [] v = "gpm" -> "nonCoordinateGeopotentialHeight"
              [] v = "displacement_lat" -> "latitudeDisplacement"
              [] v = "displacement_lon" -> "longitudeDisplacement"]

DateKeys == {"year", "month", "day", "hour", "minute", "second"}

MetaKeys == {"radiosondeSerialNumber", "softwareVersionNumber", "radiosondeType",
             "radiosondeOperatingFrequency"}

StationKeys == {"latitude", "longitude"}

\* a field name none of the branches of the scan knows
OtherKeys == {"absoluteWindShearIn1KmLayerBelow"}

\* the value of a measurement record; the scan stores it without reading it
RecordValues == {100}
RecordUnits == {"K", "degC"}
\* the date values of the body records; the header records carry 1
DateValues == {2}
MsgValues == {309053, 309057}
\* marks a record that has no <key_key>_value entry (the lookup raises KeyError)
Absent == -1

Rec(k, v, u) == [key |-> k, value |-> v, units |-> u]

MeasurementRecords ==
    {Rec(KeyOf[v], x, u) : v \in Measured, x \in RecordValues, u \in RecordUnits}

DateRecords == {Rec(k, x, "a") : k \in DateKeys, x \in DateValues}

OtherRecords ==
    {Rec(k, 100, "Numeric") : k \in MetaKeys \cup StationKeys \cup OtherKeys}
    \cup {Rec("unexpandedDescriptors", x, "CCITT IA5") : x \in MsgValues \cup {Absent}}

Records == MeasurementRecords \cup DateRecords \cup OtherRecords

\* the date and time records that open a message, complete or cut short
Header(n) ==
    [i \in 1..n |->
        Rec(<<"year", "month", "day", "hour", "minute", "second">>[i], 1, "a")]

Headers == {Header(5), Header(6)}

(***************************************************************************)
(* convert_json_to_arrays: the scan of the records.                        *)
(***************************************************************************)
\* a dict with the entry k set to v
Put(f, k, v) == [x \in DOMAIN f \cup {k} |-> IF x = k THEN v ELSE f[x]]

EmptyDict == [x \in {} |-> 0]

\* variant of Padded: gpm is not compared with the time list
Padded_without_gpm == {"temperature", "dewpoint", "pressure", "windspeed",
                       "winddirection", "displacement_lat"}

\* the lists _ensure_measurement_integrity compares with the time list
Padded == {"temperature", "gpm", "dewpoint", "pressure", "windspeed",
           "winddirection", "displacement_lat"}

\* variant of ensure_measurement_integrity: a list as long as time is padded too
ensure_measurement_integrity_eager(s) ==
    [v \in DOMAIN s |->
        IF v \in Padded /\ Len(s["time"]) >= Len(s[v]) THEN Append(s[v], NaN) ELSE s[v]]

\* variant of ensure_measurement_integrity: the marker is put in front
ensure_measurement_integrity_prepending(s) ==
    [v \in DOMAIN s |->
        IF v \in Padded /\ Len(s["time"]) > Len(s[v]) THEN <<NaN>> \o s[v] ELSE s[v]]

ensure_measurement_integrity(s) ==
    [v \in DOMAIN s |->
        IF v \in Padded /\ Len(s["time"]) > Len(s[v]) THEN Append(s[v], NaN) ELSE s[v]]

\* variant of UnitChanged: the comparison inverted
UnitChanged_inverted(old, new) == old # None /\ old = new

\* the unit consistency test of a record with units new for a variable labelled old
UnitChanged(old, new) == old # None /\ old # new

\* the lists a measurement block reports besides the time
BlockVariables == Measured \ {"time", "displacement_lon"}

\* the history before the first record: no block yet, all records in blocks
NoBlocks == [ok |-> TRUE, reported |-> <<>>]

\* the history after a timePeriod record: a new block opens
open_block(b) == IF b.ok THEN [b EXCEPT !.reported = Append(@, EmptyDict)] ELSE b

\* the history after a record of the list v with value x: the record joins the
\* open block, or the records stop forming blocks when no block is open or the
\* block has a record of v already
report(b, v, x) ==
    IF ~b.ok \/ v \notin BlockVariables THEN b
    ELSE IF b.reported = <<>> \/ v \in DOMAIN b.reported[Len(b.reported)]
    THEN [ok |-> FALSE, reported |-> <<>>]
    ELSE [b EXCEPT !.reported[Len(b.reported)] = Put(@, v, x)]

\* the records the scan can meet next
NextRecords ==
    IF pending # <<>> THEN {Head(pending)}
    ELSE IF nrec < MaxRecords THEN Records ELSE {}

\* bookkeeping of the loop over key_keys
Advance(r) ==
    /\ key_key' = r
    /\ pending' = IF pending # <<>> THEN Tail(pending) ELSE pending
    /\ nrec' = IF pending # <<>> THEN nrec ELSE nrec + 1
    /\ UNCHANGED <<direction, sorter, before, result, sounding_start_time,
                   struct_json, json_flat, visits>>

\* the branches 'latitude' and 'longitude'
ScanStation ==
    /\ pc = "scan"
    /\ \E r \in NextRecords :
        /\ r.key \in StationKeys
        /\ station' = Put(station, r.key, r.value)
        /\ Advance(r)
    /\ UNCHANGED <<pc, series, unit, meta_data, date, blocks>>

\* the branches of the eight measurement lists other than time
ScanMeasurement ==
    /\ pc = "scan"
    /\ \E r \in NextRecords : \E v \in Measured \ {"time"} :
        /\ r.key = KeyOf[v]
        /\ series' = [series EXCEPT ![v] = Append(@, r.value)]
        /\ unit' = IF unit[v] = None THEN [unit EXCEPT ![v] = r.units] ELSE unit
        /\ pc' = IF UnitChanged(unit[v], r.units) THEN "UnitChangedError" ELSE "scan"
        /\ blocks' = report(blocks, v, r.value)
        /\ Advance(r)
    /\ UNCHANGED <<meta_data, station, date>>

\* the branch 'timePeriod'
ScanTimePeriod ==
    /\ pc = "scan"
    /\ \E r \in NextRecords :
        /\ r.key = KeyOf["time"]
        /\ series' = [ensure_measurement_integrity(series)
                        EXCEPT !["time"] = Append(@, r.value)]
        /\ unit' = IF unit["time"] = None THEN [unit EXCEPT !["time"] = r.units] ELSE unit
        /\ pc' = IF UnitChanged(unit["time"], r.units) THEN "UnitChangedError" ELSE "scan"
        /\ blocks' = open_block(blocks)
        /\ Advance(r)
    /\ UNCHANGED <<meta_data, station, date>>

\* the branches 'year' ... 'second'
ScanDate ==
    /\ pc = "scan"
    /\ \E r \in NextRecords :
        /\ r.key \in DateKeys
        /\ date' = Put(date, r.key, r.value)
        /\ Advance(r)
    /\ UNCHANGED <<pc, series, unit, meta_data, station, blocks>>

MetaName(k) ==
    CASE k = "radiosondeSerialNumber" -> "sonde_serial_number"
      [] k = "radiosondeOperatingFrequency" -> "sonde_frequency"
      [] OTHER -> k

\* the branches of the metadata other than the message format
ScanMeta ==
    /\ pc = "scan"
    /\ \E r \in NextRecords :
        /\ r.key \in MetaKeys
        /\ meta_data' = Put(meta_data, MetaName(r.key),
                            IF r.key = "radiosondeOperatingFrequency"
                            THEN <<r.value, r.units>> ELSE r.value)
        /\ Advance(r)
    /\ UNCHANGED <<pc, series, unit, station, date, blocks>>

\* variant of lookup_bufr_msg: the fallback is the radiosonde ascent format
lookup_bufr_msg_ascent(r) == IF r.value = Absent THEN IntObj(309057) ELSE IntObj(r.value)

\* the format identifier the try/except stores: the value looked up, or the
\* dropsonde format when the lookup raises KeyError
lookup_bufr_msg(r) == IF r.value = Absent THEN IntObj(309053) ELSE IntObj(r.value)

\* the branch 'unexpandedDescriptors'
ScanUnexpandedDescriptors ==
    /\ pc = "scan"
    /\ \E r \in NextRecords :
        /\ r.key = "unexpandedDescriptors"
        /\ meta_data' = Put(meta_data, "bufr_msg", lookup_bufr_msg(r))
        /\ Advance(r)
    /\ UNCHANGED <<pc, series, unit, station, date, blocks>>

\* a field name no branch tests for
ScanOther ==
    /\ pc = "scan"
    /\ \E r \in NextRecords :
        /\ r.key \in OtherKeys
        /\ Advance(r)
    /\ UNCHANGED <<pc, series, unit, meta_data, station, date, blocks>>

\* variant of datetime: month and day exchanged
datetime_day_first(d) ==
    <<d["year"], d["day"], d["month"], d["hour"], d["minute"], d["second"]>>

\* dt.datetime(year, month, day, hour, minute, second) of the locals
datetime(d) ==
    <<d["year"], d["month"], d["day"], d["hour"], d["minute"], d["second"]>>

\* the end of the loop: the last integrity pass and the launch time
Finish ==
    /\ pc = "scan"
    /\ pending = <<>>
    /\ series' = ensure_measurement_integrity(series)
    /\ IF DOMAIN date = DateKeys
       THEN /\ sounding_start_time' = datetime(date)
            /\ pc' = "returned"
       ELSE /\ pc' = "UnboundLocalError"
            /\ UNCHANGED sounding_start_time
    /\ UNCHANGED <<unit, meta_data, station, date, key_key, nrec, pending,
                   struct_json, json_flat, visits, blocks,
                   direction, sorter, before, result>>

convert_json_to_arrays ==
    \/ ScanStation
    \/ ScanMeasurement
    \/ ScanTimePeriod
    \/ ScanDate
    \/ ScanMeta
    \/ ScanUnexpandedDescriptors
    \/ ScanOther
    \/ Finish

\* Sounding.__init__, before the first record
Init ==
    /\ pc = "scan"
    /\ series = [v \in Measured |-> <<>>]
    /\ unit = [v \in Measured |-> None]
    /\ meta_data = EmptyDict
    /\ station = EmptyDict
    /\ sounding_start_time = <<>>
    /\ date = EmptyDict
    /\ key_key = Rec("", 0, "")
    /\ nrec = 0
    /\ pending \in Headers
    /\ direction = 0
    /\ sorter = <<>>
    /\ before = <<>>
    /\ result = 0
    /\ struct_json = None
    /\ json_flat = EmptyDict
    /\ visits = <<>>
    /\ blocks = NoBlocks

Next == convert_json_to_arrays

Spec == Init /\ [][Next]_vars

(***************************************************************************)
(* expected_unit_check: the unit normalisation.                            *)
(***************************************************************************)
\* kelvin - 273.15, element-wise on an array; nan stays nan
kelvin_to_celsius(kelvin) ==
    [i \in 1..Len(kelvin) |-> IF isnan(kelvin[i]) THEN NaN ELSE kelvin[i] - 27315]

\* pascal/100., element-wise on an array; nan stays nan
pascal_to_hectoPascal(pascal) ==
    [i \in 1..Len(pascal) |-> IF isnan(pascal[i]) THEN NaN ELSE pascal[i] \div 100]

\* the keys 'K-->C', 'K-->degC' and 'Pa-->hPa', each a pair (from, to)
converter_dict == {<<"K", "C">>, <<"K", "degC">>, <<"Pa", "hPa">>}

\* converter_dict[key](array)
Convert(key, array) ==
    IF key = <<"Pa", "hPa">> THEN pascal_to_hectoPascal(array)
    ELSE kelvin_to_celsius(array)

variables == <<"displacement_lat", "displacement_lon", "pressure", "windspeed",
               "winddirection", "temperature", "dewpoint", "gpm", "time">>

expected_output_units == <<"deg", "deg", "hPa", "m/s", "deg", "degC", "degC", "gpm", "s">>

\* variant of ConvertedLabel: the label is not updated after the conversion
ConvertedLabel_kept(old, target) == old

\* the unit label a converted variable gets
ConvertedLabel(old, target) == target

\* the loop over the variables from position v on; a raise leaves the loop with
\* the variables converted so far changed in the Sounding
RECURSIVE unit_loop(_, _, _)
unit_loop(v, s, u) ==
    IF v > Len(variables) THEN [series |-> s, unit |-> u, exc |-> "none"]
    ELSE LET var == variables[v]
             target == expected_output_units[v]
         IN  IF u[var] = target THEN unit_loop(v + 1, s, u)
             \* '-->'.join of a label that is None, not a str
             ELSE IF u[var] = None THEN [series |-> s, unit |-> u, exc |-> "TypeError"]
             ELSE IF <<u[var], target>> \notin converter_dict
                  THEN [series |-> s, unit |-> u, exc |-> "UnexpectedUnit"]
             ELSE unit_loop(v + 1,
                            [s EXCEPT ![var] = Convert(<<u[var], target>>, s[var])],
                            [u EXCEPT ![var] = ConvertedLabel(u[var], target)])

\* one call of expected_unit_check; result counts the calls made
expected_unit_check ==
    /\ pc \in {"units0", "units1"}
    /\ LET r == unit_loop(1, series, unit)
       IN  /\ series' = r.series
           /\ unit' = r.unit
           /\ pc' = IF r.exc # "none" THEN r.exc
                    ELSE IF pc = "units0" THEN "units1" ELSE "units2"
    /\ before' = [series |-> series, unit |-> unit]
    /\ result' = IF pc = "units0" THEN 1 ELSE 2
    /\ UNCHANGED <<meta_data, station, sounding_start_time, date, key_key, nrec,
                   struct_json, json_flat, visits, blocks,
                   pending, direction, sorter>>

\* the unit labels a message can carry
UnitLabels == {None, "K", "Pa", "C", "degC", "hPa", "deg", "m/s", "gpm", "s"}

\* the arrays of the Soundings handed to the unit check
UnitArrays == {<<>>, <<30000>>, <<30000, 29000>>, <<NaN, 10132500>>}

TargetUnit == [var \in Measured |->
                 expected_output_units[CHOOSE v \in 1..Len(variables) : variables[v] = var]]

\* a Sounding after extraction: at most MaxDev labels differ from the target units
InitUnits ==
    /\ pc = "units0"
    /\ \E a \in UnitArrays : series = [v \in Measured |-> a]
    /\ \E devs \in SUBSET Measured :
        /\ Cardinality(devs) <= MaxDev
        /\ \E f \in [devs -> UnitLabels] :
            unit = [v \in Measured |-> IF v \in devs THEN f[v] ELSE TargetUnit[v]]
    /\ meta_data = EmptyDict
    /\ station = EmptyDict
    /\ sounding_start_time = <<>>
    /\ date = EmptyDict
    /\ key_key = Rec("", 0, "")
    /\ nrec = 0
    /\ pending = <<>>
    /\ direction = 0
    /\ sorter = <<>>
    /\ before = <<>>
    /\ result = 0
    /\ struct_json = None
    /\ json_flat = EmptyDict
    /\ visits = <<>>
    /\ blocks = NoBlocks

NextUnits == expected_unit_check

SpecUnits == InitUnits /\ [][NextUnits]_vars

(***************************************************************************)
(* The derived quantities, the direction, the sort and the filter, on the  *)
(* arrays of a Sounding.                                                   *)
(***************************************************************************)
\* a - b and a / b on floats; b = 0 gives nan or an infinity, as numpy does
Sub(a, b) == IF isnan(a) \/ isnan(b) THEN NaN ELSE a - b

Divide(a, b) ==
    IF isnan(a) \/ isnan(b) THEN NaN
    ELSE IF b = 0 THEN (IF a = 0 THEN NaN ELSE IF a > 0 THEN Inf ELSE -Inf)
    ELSE (a * 100) \div b

\* np.diff: a[1:] - a[:-1], empty for fewer than two samples
diff(a) == [i \in 1..(Len(a) - 1) |-> Sub(a[i + 1], a[i])]

\* variant of concatenate: the zero is put behind the rates
concatenate_swapped(first, rest) == rest \o first

\* np.ma.concatenate(([0], ascent_rate))
concatenate(first, rest) == first \o rest

\* the array calc_ascentrate stores in sounding.ascentrate
ascent_rate(gpm, time) ==
    LET dz == diff(gpm)
        dt == diff(time)
    IN  concatenate(<<0>>, [i \in 1..Len(dz) |-> Divide(dz[i], dt[i])])

calc_ascentrate ==
    /\ pc = "arrays"
    /\ Len(series["gpm"]) = Len(series["time"])
    /\ series' = [v \in DOMAIN series \cup {"ascentrate"} |->
                    IF v = "ascentrate" THEN ascent_rate(series["gpm"], series["time"])
                    ELSE series[v]]
    /\ pc' = "derived"
    /\ UNCHANGED <<unit, meta_data, station, sounding_start_time, date, key_key, nrec,
                   struct_json, json_flat, visits, blocks,
                   pending, direction, sorter, before, result>>

\* np.ma.compressed of an ndarray: no sample is masked, nan samples stay
compressed(a) == a

abs(x) == IF isnan(x) THEN NaN ELSE IF x < 0 THEN -x ELSE x

\* the outcomes of astype(int) on a float: the truncated value; for nan the
\* conversion is undefined, the builds giving the most negative integer or 0
astype_int(x) == IF isnan(x) THEN {-1, 0} ELSE {x \div 100}

\* the sequences of integers astype(int) can give for an array
RECURSIVE astype_int_array(_)
astype_int_array(a) ==
    IF a = <<>> THEN {<<>>}
    ELSE {<<x>> \o rest : x \in astype_int(Head(a)), rest \in astype_int_array(Tail(a))}

Max(S) == CHOOSE x \in S : \A y \in S : y <= x

Range(a) == {a[i] : i \in 1..Len(a)}

\* np.bincount: counts[k + 1] is the number of occurrences of k, for k in 0..max
bincount(ints) ==
    IF ints = <<>> THEN <<>>
    ELSE [k \in 1..(Max(Range(ints)) + 1) |->
            Cardinality({i \in 1..Len(ints) : ints[i] = k - 1})]

\* np.argmax: the first position (from 0) of the largest element
argmax(counts) ==
    (CHOOSE k \in 1..Len(counts) :
        /\ \A j \in 1..Len(counts) : counts[j] <= counts[k]
        /\ \A j \in 1..(k - 1) : counts[j] < counts[k]) - 1

\* the element of time_differences the function returns
most_common_diff(time_differences, index) == time_differences[index + 1]

calc_temporal_resolution ==
    /\ pc = "derived"
    /\ LET time_differences ==
               [i \in 1..(Len(series["time"]) - 1) |->
                   abs(diff(compressed(series["time"]))[i])]
       IN  \E ints \in astype_int_array(time_differences) :
            \* np.bincount refuses negative elements
            IF \E i \in 1..Len(ints) : ints[i] < 0
            THEN pc' = "ValueError" /\ UNCHANGED result
            \* np.argmax refuses an empty sequence
            ELSE IF bincount(ints) = <<>>
            THEN pc' = "ValueError" /\ UNCHANGED result
            ELSE IF argmax(bincount(ints)) + 1 > Len(time_differences)
            THEN pc' = "IndexError" /\ UNCHANGED result
            ELSE /\ pc' = "resolved"
                 /\ result' = most_common_diff(time_differences, argmax(bincount(ints)))
    /\ UNCHANGED <<series, unit, meta_data, station, sounding_start_time, date, key_key,
                   struct_json, json_flat, visits, blocks,
                   nrec, pending, direction, sorter, before>>

\* the decimal digits of a natural number
RECURSIVE Digits(_)
Digits(n) == IF n < 10 THEN <<n>> ELSE Append(Digits(n \div 10), n % 10)

\* str(x): the decimal digits of an int, a str itself
str(x) == IF "int" \in DOMAIN x THEN Digits(x.int) ELSE x.str

\* variant of get_sounding_direction: the descent format taken for an ascent
get_sounding_direction_descent_up(bufr_msg) ==
    IF str(bufr_msg) = <<3, 0, 9, 0, 5, 3>> THEN -1
    ELSE IF str(bufr_msg) = <<3, 0, 9, 0, 5, 6>> THEN 1
    ELSE IF str(bufr_msg) = <<3, 0, 9, 0, 5, 7>> THEN 1
    ELSE 0

\* the value get_sounding_direction returns, 0 standing for the raise
get_sounding_direction(bufr_msg) ==
    IF str(bufr_msg) = <<3, 0, 9, 0, 5, 3>> THEN -1
    ELSE IF str(bufr_msg) = <<3, 0, 9, 0, 5, 6>> THEN -1
    ELSE IF str(bufr_msg) = <<3, 0, 9, 0, 5, 7>> THEN 1
    ELSE 0

\* sounding.direction = get_sounding_direction(sounding.meta_data['bufr_msg'])
set_sounding_direction ==
    /\ pc = "derived"
    /\ LET d == get_sounding_direction(meta_data["bufr_msg"])
       IN  IF d = 0 THEN pc' = "NotImplementedError" /\ UNCHANGED direction
           ELSE pc' = "directed" /\ direction' = d
    /\ UNCHANGED <<series, unit, meta_data, station, sounding_start_time, date, key_key,
                   struct_json, json_flat, visits, blocks,
                   nrec, pending, sorter, before, result>>

\* variant of nan_key: the sign of the infinity flipped
nan_key_flipped(dir) == Inf * dir

\* the value that replaces nan in the copy nan_argsort sorts
nan_key(dir) == -Inf * dir

\* the orders np.argsort can return: the sort is not stable, so equal elements
\* come in any order
argsort(tmp) ==
    {p \in [1..Len(tmp) -> 1..Len(tmp)] :
        /\ \A i, j \in 1..Len(tmp) : i # j => p[i] # p[j]
        /\ \A i \in 1..(Len(tmp) - 1) : tmp[p[i]] <= tmp[p[i + 1]]}

nan_argsort(array, dir) ==
    argsort([i \in 1..Len(array) |-> IF isnan(array[i]) THEN nan_key(dir) ELSE array[i]])

\* variant of Take: the order used as the target positions of the samples
Take_scatter(array, order) ==
    [i \in 1..Len(order) |-> array[CHOOSE j \in 1..Len(order) : order[j] = i]]

\* array[sorter]
Take(array, order) == [i \in 1..Len(order) |-> array[order[i]]]

\* the attributes sort_sounding_by_time and exclude_1000hPa_gpm assign
Processed == {"time", "ascentrate", "gpm", "pressure", "temperature", "relativehumidity",
              "dewpoint", "mixingratio", "windspeed", "winddirection", "latitude",
              "longitude"}

\* variant of Sorted: one derived series forgotten
Sorted_without_mixingratio == Processed \ {"mixingratio"}

\* the attributes sort_sounding_by_time indexes with the order
Sorted == Processed

\* one call of sort_sounding_by_time, on a directed Sounding or on the Sounding
\* a first call has sorted
sort_sounding_by_time ==
    /\ pc \in {"directed", "sorted"}
    /\ \E order \in nan_argsort(series["time"], direction) :
        /\ sorter' = order
        /\ series' = [v \in DOMAIN series |->
                        IF v \in Sorted THEN Take(series[v], order) ELSE series[v]]
    /\ before' = [series |-> series, unit |-> unit]
    /\ pc' = IF pc = "directed" THEN "sorted" ELSE "sorted_again"
    /\ UNCHANGED <<unit, meta_data, station, sounding_start_time, date, key_key, nrec,
                   struct_json, json_flat, visits, blocks,
                   pending, direction, result>>

\* variant of Mask: every array filtered by its own missing samples
RECURSIVE Mask_own(_, _)
Mask_own(array, time) ==
    IF time = <<>> THEN <<>>
    ELSE (IF isnan(Head(array)) THEN <<>> ELSE <<Head(array)>>)
         \o Mask_own(Tail(array), Tail(time))

\* array[nan_mask], the mask being ~np.isnan(time)
RECURSIVE Mask(_, _)
Mask(array, time) ==
    IF time = <<>> THEN <<>>
    ELSE (IF isnan(Head(time)) THEN <<>> ELSE <<Head(array)>>)
         \o Mask(Tail(array), Tail(time))

exclude_1000hPa_gpm ==
    /\ pc = "sorted"
    /\ series' = [v \in DOMAIN series |->
                    IF v \in Processed THEN Mask(series[v], series["time"]) ELSE series[v]]
    /\ pc' = "excluded"
    /\ UNCHANGED <<unit, meta_data, station, sounding_start_time, date, key_key, nrec,
                   struct_json, json_flat, visits, blocks,
                   pending, direction, sorter, before, result>>

\* the samples of the time and height arrays
TimeSamples == {0, 100, 250, NaN}
GpmSamples == {50000, NaN}

\* the sample of row i of every other array: one value per array and row
Sample(name, i) ==
    100 * i + (CHOOSE k \in 1..11 : <<"pressure", "temperature", "dewpoint", "windspeed",
                                      "winddirection", "displacement_lat",
                                      "displacement_lon", "latitude", "longitude",
                                      "relativehumidity", "mixingratio">>[k] = name)

Arrays(S, n) == [1..n -> S]

\* the message format identifiers, as numbers and as strings
MsgObjects ==
    {IntObj(n) : n \in {309053, 309055, 309056, 309057}}
    \cup {StrObj(<<3, 0, 9, 0, 5, d>>) : d \in {3, 5, 6, 7}}
    \cup {StrObj(<<0, 3, 0, 9, 0, 5, 7>>)}

\* a Sounding after the unit check, the derived humidity and position computed
InitArrays ==
    /\ pc = "arrays"
    /\ \E n \in 0..MaxLen : \E t \in Arrays(TimeSamples, n) : \E g \in Arrays(GpmSamples, n) :
        series = [v \in Measured \cup {"latitude", "longitude", "relativehumidity",
                                        "mixingratio"} |->
                    IF v = "time" THEN t
                    ELSE IF v = "gpm" THEN g
                    ELSE [i \in 1..n |-> Sample(v, i)]]
    /\ unit = TargetUnit
    /\ \E b \in MsgObjects : meta_data = [bufr_msg |-> b]
    /\ station = EmptyDict
    /\ sounding_start_time = <<>>
    /\ date = EmptyDict
    /\ key_key = Rec("", 0, "")
    /\ nrec = 0
    /\ pending = <<>>
    /\ direction = 0
    /\ sorter = <<>>
    /\ before = <<>>
    /\ result = 0
    /\ struct_json = None
    /\ json_flat = EmptyDict
    /\ visits = <<>>
    /\ blocks = NoBlocks

NextArrays ==
    \/ calc_ascentrate
    \/ calc_temporal_resolution
    \/ set_sounding_direction
    \/ sort_sounding_by_time
    \/ exclude_1000hPa_gpm

SpecArrays == InitArrays /\ [][NextArrays]_vars

(***************************************************************************)
(* flatten_json: the flattening of the nested structure of a message.      *)
(*                                                                         *)
(* A structure is a scalar (a leaf), a list or a dict.  The items of a     *)
(* list or dict are pairs <<name, structure>> in the order of iteration,   *)
(* the name of a list element being the empty string.                      *)
(***************************************************************************)
Leaf(x) == [kind |-> "leaf", v |-> x, items |-> <<>>]

Node(kind, items) == [kind |-> kind, v |-> 0, items |-> items]

\* the keys of the dicts, in the order the dicts hold them
NameOrder == <<"key", "value">>

LeafValues == {1}

\* the structures nested at most d deep; a list or dict has at most as many
\* items as there are keys
RECURSIVE Structures(_)
Structures(d) ==
    IF d = 0 THEN {Leaf(x) : x \in LeafValues}
    ELSE LET sub == Structures(d - 1)
             lists == UNION {[1..n -> {""} \X sub] : n \in 0..Len(NameOrder)}
             dicts == UNION {{[i \in 1..Len(ks) |-> <<NameOrder[ks[i]], f[i]>>] :
                                 f \in [1..Len(ks) -> sub]} :
                             ks \in {<<>>, <<1>>, <<2>>, <<1, 2>>}}
         IN  sub \cup {Node("list", l) : l \in lists} \cup {Node("dict", m) : m \in dicts}

RECURSIVE Pow10(_)
Pow10(k) == IF k = 0 THEN 1 ELSE 10 * Pow10(k - 1)

\* r / q rounded to the nearest integer, a tie to the even one
RoundTo(r, q) ==
    LET lo == r \div q
        rem == r % q
    IN  IF 2 * rem > q \/ (2 * rem = q /\ lo % 2 = 1) THEN lo + 1 ELSE lo

RECURSIVE StripZeros(_)
StripZeros(d) ==
    IF Len(d) > 1 /\ d[Len(d)] = 0 THEN StripZeros(SubSeq(d, 1, Len(d) - 1)) ELSE d

ZeroPad(d, width) == [i \in 1..(width - Len(d)) |-> 0] \o d

\* '{:07g}'.format(r), a string of digits and, as negative numbers, of the
\* characters 'e' (-1), '.' (-2) and '+' (-3): the general format keeps six
\* significant digits, so from a million on the counter is rounded and
\* written with an exponent
format_07g(r) ==
    IF r < 1000000 THEN ZeroPad(Digits(r), 7)
    ELSE LET k == Len(Digits(r)) - 1
             m == RoundTo(r, Pow10(k - 5))
             e == IF m = 1000000 THEN k + 1 ELSE k
             mant == StripZeros(Digits(IF m = 1000000 THEN 100000 ELSE m))
             point == IF Len(mant) > 1 THEN <<-2>> ELSE <<>>
         IN  ZeroPad(<<Head(mant)>> \o point \o Tail(mant) \o <<-1, -3>>
                     \o ZeroPad(Digits(e), 2), 7)

\* the key '{:07g}_{}'.format(r, name)
key_format(r, name) == <<format_07g(r), name>>

\* variant of after_element: the counter is left as it is
after_element_kept(r) == r

\* r += 1, at the end of each iteration of the loop over a list
after_element(r) == r + 1

\* the inner function flatten and its loops from item i on; st holds the dict
\* out, the global r and the history of the leaves met, path is the position
\* of x in the structure
RECURSIVE flatten(_, _, _, _)
RECURSIVE flatten_items(_, _, _, _)
flatten(x, name, st, path) ==
    IF x.kind = "leaf"
    THEN [out |-> Put(st.out, key_format(st.r, name), x.v),
          r |-> st.r,
          visits |-> Append(st.visits, [r |-> st.r, name |-> name, path |-> path])]
    ELSE flatten_items(x, 1, st, path)

flatten_items(x, i, st, path) ==
    IF i > Len(x.items) THEN st
    ELSE LET a == x.items[i]
             after == flatten(a[2], IF x.kind = "dict" THEN a[1] ELSE "", st,
                              Append(path, i))
         IN  flatten_items(x, i + 1,
                           IF x.kind = "list"
                           THEN [after EXCEPT !.r = after_element(@)] ELSE after,
                           path)

flatten_json ==
    /\ pc = "json"
    /\ LET st == flatten(struct_json, "", [out |-> EmptyDict, r |-> 0, visits |-> <<>>],
                         <<>>)
       IN  /\ json_flat' = st.out
           /\ visits' = st.visits
    /\ pc' = "flat"
    /\ UNCHANGED <<series, unit, meta_data, station, sounding_start_time, date, key_key,
                   nrec, pending, direction, sorter, before, result, struct_json, blocks>>

\* a structure as json.load returns it
InitFlatten ==
    /\ pc = "json"
    /\ struct_json \in Structures(MaxDepth)
    /\ json_flat = EmptyDict
    /\ visits = <<>>
    /\ blocks = NoBlocks
    /\ series = [v \in Measured |-> <<>>]
    /\ unit = [v \in Measured |-> None]
    /\ meta_data = EmptyDict
    /\ station = EmptyDict
    /\ sounding_start_time = <<>>
    /\ date = EmptyDict
    /\ key_key = Rec("", 0, "")
    /\ nrec = 0
    /\ pending = <<>>
    /\ direction = 0
    /\ sorter = <<>>
    /\ before = <<>>
    /\ result = 0

NextFlatten == flatten_json

SpecFlatten == InitFlatten /\ [][NextFlatten]_vars

(***************************************************************************)
(* Properties.                                                             *)
(***************************************************************************)
\* C1: when convert_json_to_arrays returns a Sounding, each of the eight series
\* pressure, temperature, dewpoint, windspeed, winddirection, gpm,
\* displacement_lat and displacement_lon is as long as the time series.
C1_EqualLengths ==
    pc = "returned" =>
        \A v \in Measured : Len(series[v]) = Len(series["time"])

\* C2: a record of one of the nine variables whose unit differs from the unit
\* already recorded for the variable ends the scan in UnitChangedError, and
\* after UnitChangedError no record is processed and nothing is returned.
C2_UnitChangeAborts ==
    [][/\ pc # "UnitChangedError"
       /\ (nrec' # nrec \/ pending' # pending) =>
            \A v \in Measured :
                (key_key'.key = KeyOf[v] /\ unit[v] # None /\ key_key'.units # unit[v])
                    => pc' = "UnitChangedError"]_vars

\* a temperature record in degC met after a temperature record in K
C2_Witness ==
    /\ pc = "UnitChangedError"
    /\ key_key.key = "airTemperature"
    /\ key_key.units = "degC"
    /\ unit["temperature"] = "K"

\* the twelve series sort_sounding_by_time and exclude_1000hPa_gpm process
TwelveSeries == {"time", "ascentrate", "gpm", "pressure", "temperature",
                 "relativehumidity", "dewpoint", "mixingratio", "windspeed",
                 "winddirection", "latitude", "longitude"}

IsPermutation(order, n) ==
    /\ Len(order) = n
    /\ \A i \in 1..n : \E j \in 1..n : order[j] = i

\* in the order, the non-missing values ascend
Ascending(order, time) ==
    \A i, j \in 1..Len(order) :
        (i < j /\ ~isnan(time[order[i]]) /\ ~isnan(time[order[j]]))
            => time[order[i]] <= time[order[j]]

\* in the order, every missing value comes before every non-missing one
NanFirst(order, time) ==
    \A i, j \in 1..Len(order) :
        (i < j /\ isnan(time[order[j]])) => isnan(time[order[i]])

\* in the order, every missing value comes after every non-missing one
NanLast(order, time) ==
    \A i, j \in 1..Len(order) :
        (i < j /\ isnan(time[order[i]])) => isnan(time[order[j]])

\* C3 as claimed: the order nan_argsort returns has the missing time values at
\* the end for direction +1 and at the start for direction -1, the non-missing
\* values ascending in between.
C3_NanAtEndWhenAscending ==
    pc = "sorted" =>
        /\ IsPermutation(sorter, Len(before.series["time"]))
        /\ Ascending(sorter, before.series["time"])
        /\ direction = 1 => NanLast(sorter, before.series["time"])
        /\ direction = -1 => NanFirst(sorter, before.series["time"])

\* C3 as amended: the order nan_argsort returns has the missing time values at
\* the start for direction +1 and at the end for direction -1, the non-missing
\* values ascending.
C3_NanAtStartWhenAscending ==
    pc = "sorted" =>
        /\ IsPermutation(sorter, Len(before.series["time"]))
        /\ Ascending(sorter, before.series["time"])
        /\ direction = 1 => NanFirst(sorter, before.series["time"])
        /\ direction = -1 => NanLast(sorter, before.series["time"])

\* an ascending sounding sorted whose time series holds a missing value behind
\* a non-missing one
C3_Witness ==
    /\ pc = "sorted"
    /\ direction = 1
    /\ \E i, j \in 1..Len(before.series["time"]) :
        /\ i < j
        /\ ~isnan(before.series["time"][i])
        /\ isnan(before.series["time"][j])

\* C4 as claimed: sort_sounding_by_time applies the one time order to every
\* series the Sounding holds, so that row i of every series after the sort is
\* the row sorter[i] of before.
C4_EverySeriesPermuted ==
    pc = "sorted" =>
        /\ IsPermutation(sorter, Len(before.series["time"]))
        /\ \A v \in DOMAIN series :
            /\ Len(series[v]) = Len(sorter)
            /\ \A i \in 1..Len(sorter) : series[v][i] = before.series[v][sorter[i]]

\* C4 as amended: sort_sounding_by_time applies the one time order to the
\* twelve series it processes, and leaves displacement_lat and
\* displacement_lon as they were.
C4_TwelveSeriesPermuted ==
    pc = "sorted" =>
        /\ IsPermutation(sorter, Len(before.series["time"]))
        /\ \A v \in TwelveSeries :
            /\ Len(series[v]) = Len(sorter)
            /\ \A i \in 1..Len(sorter) : series[v][i] = before.series[v][sorter[i]]
        /\ \A v \in DOMAIN series \ TwelveSeries : series[v] = before.series[v]

\* a sort that moved a row
C4_Witness ==
    /\ pc = "sorted"
    /\ \E i \in 1..Len(sorter) : sorter[i] # i

\* the rows of before whose time is not missing are, each exactly once and
\* with all their values, the rows of the named series now
RowsKept(names) ==
    LET time == before.series["time"]
        kept == {i \in 1..Len(time) : ~isnan(time[i])}
        m == Cardinality(kept)
    IN  /\ \A v \in names : Len(series[v]) = m
        /\ \E f \in [1..m -> kept] :
            /\ \A i, j \in 1..m : i # j => f[i] # f[j]
            /\ \A j \in 1..m : \A v \in names : series[v][j] = before.series[v][f[j]]

\* C5 as claimed: the sort followed by the filter removes from every series of
\* the Sounding exactly the rows whose time is missing.
C5_EverySeriesFiltered ==
    pc = "excluded" => RowsKept(DOMAIN series)

\* C5 as amended: the sort followed by the filter removes from the twelve
\* series they process exactly the rows whose time is missing;
\* displacement_lat and displacement_lon keep all their rows.
C5_TwelveSeriesFiltered ==
    pc = "excluded" =>
        /\ RowsKept(TwelveSeries)
        /\ \A v \in DOMAIN series \ TwelveSeries : series[v] = before.series[v]

\* a filtered sounding that had a row without time and a row with time but
\* without height
C5_Witness ==
    /\ pc = "excluded"
    /\ \E i, j \in 1..Len(before.series["time"]) :
        /\ isnan(before.series["time"][i])
        /\ ~isnan(before.series["time"][j])
        /\ isnan(before.series["gpm"][j])

\* C6: get_sounding_direction gives +1 for 309057, -1 for 309053 and 309056,
\* as a number or as the decimal string, and raises for every other identifier.
C6_Direction ==
    pc \in {"directed", "sorted", "excluded", "NotImplementedError"} =>
        LET b == meta_data["bufr_msg"]
        IN  IF b \in {IntObj(309057), StrObj(<<3, 0, 9, 0, 5, 7>>)}
            THEN direction = 1 /\ pc # "NotImplementedError"
            ELSE IF b \in {IntObj(309053), StrObj(<<3, 0, 9, 0, 5, 3>>),
                           IntObj(309056), StrObj(<<3, 0, 9, 0, 5, 6>>)}
            THEN direction = -1 /\ pc # "NotImplementedError"
            ELSE direction = 0 /\ pc = "NotImplementedError"

\* the descent format given as a number
C6_Witness ==
    /\ pc = "directed"
    /\ meta_data["bufr_msg"] = IntObj(309056)
    /\ direction = -1

\* C7: a second expected_unit_check after a successful one succeeds and leaves
\* every array and every unit label as the first left them.
C7_Idempotent ==
    result = 2 =>
        /\ pc = "units2"
        /\ series = before.series
        /\ unit = before.unit

\* two checks of a sounding whose temperatures came in K
C7_Witness ==
    /\ pc = "units2"
    /\ series["temperature"] = <<2685, 1685>>
    /\ unit["temperature"] = "degC"

\* C8: expected_unit_check raises UnexpectedUnit exactly when some variable's
\* unit differs from its target and no conversion is registered for the pair,
\* and when it returns every unit label is the target.
C8_UnexpectedUnitExactly ==
    result = 1 =>
        /\ pc = "UnexpectedUnit" <=>
            \E v \in Measured :
                /\ before.unit[v] # TargetUnit[v]
                /\ <<before.unit[v], TargetUnit[v]>> \notin
                       {<<"K", "C">>, <<"K", "degC">>, <<"Pa", "hPa">>}
        /\ pc \in {"units1", "UnexpectedUnit"}
        /\ pc = "units1" => \A v \in Measured : unit[v] = TargetUnit[v]

\* C9 as claimed: for gpm and time of equal length, length 0 and 1 included,
\* the ascent rate is as long as the time series and starts with zero.
C9_AscentrateAsLongAsTime ==
    pc = "derived" =>
        /\ Len(series["ascentrate"]) = Len(series["time"])
        /\ Len(series["ascentrate"]) > 0 => series["ascentrate"][1] = 0

\* C9 as amended: for gpm and time of equal length of at least 1, the ascent
\* rate is as long as the time series and starts with zero; for length 0 it is
\* the one-element series [0].
C9_AscentrateLength ==
    pc = "derived" =>
        /\ Len(series["time"]) >= 1 => Len(series["ascentrate"]) = Len(series["time"])
        /\ Len(series["time"]) = 0 => Len(series["ascentrate"]) = 1
        /\ series["ascentrate"][1] = 0

\* an ascent rate of three samples, the second not zero
C9_Witness ==
    /\ pc = "derived"
    /\ Len(series["time"]) = 3
    /\ series["ascentrate"][2] # 0

NonMissing(time) == SelectSeq(time, LAMBDA x : ~isnan(x))

\* the values occurring most often in a non-empty sequence
Modes(a) ==
    LET count(x) == Cardinality({i \in 1..Len(a) : a[i] = x})
    IN  {x \in Range(a) : \A y \in Range(a) : count(y) <= count(x)}

\* C10: for a time series with at least two non-missing samples,
\* calc_temporal_resolution does not fail and returns the value occurring
\* most often among the truncated absolute differences of the non-missing
\* samples.
C10_ReturnsMode ==
    (/\ pc \in {"resolved", "ValueError", "IndexError"}
     /\ Len(NonMissing(series["time"])) >= 2) =>
        LET t == NonMissing(series["time"])
            d == [i \in 1..(Len(t) - 1) |->
                    (IF t[i + 1] >= t[i] THEN t[i + 1] - t[i] ELSE t[i] - t[i + 1]) \div 100]
        IN  /\ pc = "resolved"
            /\ (result \div 100) \in Modes(d)

\* the number of scalar leaves of a structure
RECURSIVE NumberOfLeaves(_)
NumberOfLeaves(x) ==
    IF x.kind = "leaf" THEN 1
    ELSE LET RECURSIVE sum(_)
             sum(i) == IF i = 0 THEN 0 ELSE sum(i - 1) + NumberOfLeaves(x.items[i][2])
         IN  sum(Len(x.items))

\* C11: flatten_json gives distinct leaves distinct keys, so the flattened dict
\* has exactly one entry per scalar leaf of the structure and no leaf is
\* overwritten by another.
C11_OneEntryPerLeaf ==
    pc = "flat" => Cardinality(DOMAIN json_flat) = NumberOfLeaves(struct_json)

\* C12: at each timePeriod record, before the time value is appended, the
\* integrity pass appends one missing-value marker to each of the eight other
\* series (pressure, temperature, dewpoint, windspeed, winddirection, gpm,
\* displacement_lat, displacement_lon) that is shorter than the time series,
\* and appends nothing to the others.
C12_EightSeriesPadded ==
    [][(/\ pc = "scan"
        /\ nrec' # nrec \/ pending' # pending
        /\ key_key'.key = "timePeriod") =>
            \A v \in Measured \ {"time"} :
                series'[v] = IF Len(series[v]) < Len(series["time"])
                             THEN Append(series[v], NaN) ELSE series[v]]_vars

\* C13: a record unexpandedDescriptors whose value lookup fails sets the
\* format identifier of the metadata to the dropsonde code 309053 and the scan
\* goes on without an error; when the lookup succeeds the identifier is the
\* value looked up.
C13_MessageFormat ==
    [][(/\ pc = "scan"
        /\ nrec' # nrec \/ pending' # pending
        /\ key_key'.key = "unexpandedDescriptors") =>
            /\ pc' = "scan"
            /\ "bufr_msg" \in DOMAIN meta_data'
            /\ meta_data'["bufr_msg"] = IF key_key'.value = -1 THEN [int |-> 309053]
                                        ELSE [int |-> key_key'.value]]_vars

\* the scan after a record unexpandedDescriptors without a value entry
C13_Witness ==
    /\ pc = "scan"
    /\ key_key.key = "unexpandedDescriptors"
    /\ key_key.value = Absent
    /\ meta_data["bufr_msg"] = IntObj(309053)

\* C14: whenever expected_unit_check raises UnexpectedUnit, every variable of
\* the Sounding has the values and the unit label it had before the call: no
\* variable has been converted while another was rejected.
C14_NothingConvertedOnRaise ==
    pc = "UnexpectedUnit" =>
        \A v \in Measured :
            /\ series[v] = before.series[v]
            /\ unit[v] = before.unit[v]

\* C15 as claimed: a second sort_sounding_by_time of a Sounding the function
\* has sorted, the direction being the same, leaves every series unchanged,
\* also when the time series has duplicate or several missing values.
C15_SecondSortChangesNothing ==
    pc = "sorted_again" =>
        \A v \in DOMAIN series : series[v] = before.series[v]

\* no two samples of the time series are equal or both missing
DistinctTimes(time) == \A i, j \in 1..Len(time) : i # j => time[i] # time[j]

\* C15 as amended: a second sort_sounding_by_time leaves the time series
\* unchanged, and leaves every series unchanged when no two time values are
\* equal or both missing.
C15_SecondSortKeepsTime ==
    pc = "sorted_again" =>
        /\ series["time"] = before.series["time"]
        /\ DistinctTimes(before.series["time"]) =>
            /\ \A v \in DOMAIN series : series[v] = before.series[v]
            /\ \A i \in 1..Len(sorter) : sorter[i] = i

\* a Sounding sorted twice whose three time values differ, one of them missing
C15_Witness ==
    /\ pc = "sorted_again"
    /\ Len(series["time"]) = 3
    /\ DistinctTimes(series["time"])
    /\ \E i \in 1..3 : isnan(series["time"][i])

\* a is the beginning of b
IsPrefix(a, b) == Len(a) <= Len(b) /\ \A i \in 1..Len(a) : a[i] = b[i]

\* C16: throughout the extraction every measurement series only grows at its
\* end: after each step the content a series had is a prefix of its content
\* now; and a record whose field name no branch knows changes no series, no
\* unit label and no entry of the metadata.
C16_AppendOnly ==
    [][pc = "scan" =>
        /\ \A v \in Measured : IsPrefix(series[v], series'[v])
        /\ (/\ nrec' # nrec \/ pending' # pending
            /\ key_key'.key \notin
                   {"latitude", "longitude", "pressure", "windSpeed", "windDirection",
                    "nonCoordinateGeopotentialHeight", "airTemperature",
                    "dewpointTemperature", "latitudeDisplacement",
                    "longitudeDisplacement", "timePeriod", "year", "month", "day",
                    "hour", "minute", "second", "radiosondeSerialNumber",
                    "softwareVersionNumber", "radiosondeType", "unexpandedDescriptors",
                    "radiosondeOperatingFrequency"}) =>
                /\ series' = series
                /\ unit' = unit
                /\ meta_data' = meta_data
                /\ pc' = "scan"]_vars

\* a record of an unknown field name met after samples and a marker were stored
C16_Witness ==
    /\ pc = "scan"
    /\ key_key.key \in OtherKeys
    /\ Len(series["time"]) = 2
    /\ series["gpm"] = <<NaN>>

\* C18: the launch timestamp of a returned Sounding is made of the six
\* subfields year, month, day, hour, minute, second, each the value of its last
\* record in the scan; no Sounding is returned when one of the six had no
\* record (the function ends in an error), and the timestamp is not set before
\* the scan has finished.
C18_LaunchTime ==
    [][/\ (/\ nrec' # nrec \/ pending' # pending
           /\ key_key'.key \in {"year", "month", "day", "hour", "minute", "second"}) =>
              /\ key_key'.key \in DOMAIN date'
              /\ date'[key_key'.key] = key_key'.value
              /\ \A k \in DOMAIN date \ {key_key'.key} : k \in DOMAIN date' /\ date'[k] = date[k]
              /\ DOMAIN date' = DOMAIN date \cup {key_key'.key}
       /\ ~(/\ nrec' # nrec \/ pending' # pending
            /\ key_key'.key \in {"year", "month", "day", "hour", "minute", "second"}) =>
              date' = date
       /\ pc' = "scan" => sounding_start_time' = <<>>
       /\ (pc = "scan" /\ pc' = "returned") =>
              /\ DOMAIN date = {"year", "month", "day", "hour", "minute", "second"}
              /\ sounding_start_time' = <<date["year"], date["month"], date["day"],
                                          date["hour"], date["minute"], date["second"]>>
       /\ (/\ pc = "scan" /\ pc' # "scan"
           /\ DOMAIN date # {"year", "month", "day", "hour", "minute", "second"}) =>
              pc' \in {"UnboundLocalError", "UnitChangedError"}]_vars

\* a Sounding returned from a message whose month was given twice
C18_Witness ==
    /\ pc = "returned"
    /\ sounding_start_time = <<1, 2, 1, 1, 1, 1>>

RECURSIVE ElementPaths(_, _)
ElementPaths(x, path) ==
    UNION {(IF x.kind = "list" THEN {Append(path, i)} ELSE {})
           \cup ElementPaths(x.items[i][2], Append(path, i)) : i \in 1..Len(x.items)}

\* position q lies before position p in the traversal and p is not inside q:
\* the traversal has left q when it reaches p
LeftBefore(q, p) ==
    \E k \in 1..Len(q) :
        /\ k <= Len(p)
        /\ q[k] < p[k]
        /\ \A j \in 1..(k - 1) : q[j] = p[j]

C19_AtMostOneBehind ==
    \A v \in {"temperature", "gpm", "dewpoint", "pressure", "windspeed",
              "winddirection", "displacement_lat"} :
        /\ Len(series[v]) + 1 >= Len(series["time"])
        /\ pc = "returned" => Len(series[v]) >= Len(series["time"])

\* three timePeriod records and no height record: two passes padded gpm, which
\* is one sample behind
C19_Witness ==
    /\ pc = "scan"
    /\ Len(series["time"]) = 3
    /\ series["gpm"] = <<NaN, NaN>>

\* C20: when the records of time and of the seven padded variables come in
\* blocks, each block one timePeriod record followed by at most one record of
\* each of temperature, gpm, dewpoint, pressure, windspeed, winddirection and
\* displacement_lat, then in the returned Sounding entry i of each of these
\* series is the value block i reported, or the missing-value marker when
\* block i reported none: every series is as long as the time series and
\* aligned with it.
C20_AlignedWithBlocks ==
    (pc = "returned" /\ blocks.ok) =>
        /\ Len(series["time"]) = Len(blocks.reported)
        /\ \A v \in {"temperature", "gpm", "dewpoint", "pressure", "windspeed",
                     "winddirection", "displacement_lat"} :
            /\ Len(series[v]) = Len(blocks.reported)
            /\ \A i \in 1..Len(blocks.reported) :
                series[v][i] = IF v \in DOMAIN blocks.reported[i]
                               THEN blocks.reported[i][v] ELSE NaN

\* a Sounding returned from two blocks, the first with a height and the second
\* without
C20_Witness ==
    /\ pc = "returned"
    /\ blocks.ok
    /\ Len(blocks.reported) = 2
    /\ "gpm" \in DOMAIN blocks.reported[1]
    /\ "gpm" \notin DOMAIN blocks.reported[2]
    /\ series["gpm"] = <<100, NaN>>

====
